---------------------------- MODULE Spec2Model ----------------------------
(***************************************************************************)
(* State-machine model of the concurrent fetch / retry / checkpoint engine *)
(* of src/scraper/scrape_ids.py (run_scraper, scrape_all_ids, worker,      *)
(* scrape_id_async, save_checkpoint, save_failed_ids).                     *)
(*                                                                         *)
(* Scheduling: asyncio is cooperative.  A coroutine is suspended only at   *)
(* `await asyncio.sleep`, at the request/response exchange and at          *)
(* `await asyncio.gather`; save_checkpoint and save_failed_ids contain no  *)
(* suspension point, so awaiting them runs them inline.  Every action      *)
(* below is the code between two suspension points.                        *)
(*                                                                         *)
(* Identifiers are the integers 1..N (they are opaque and unique); the     *)
(* identifier list read from the file is <<1, ..., N>>.                    *)
(***************************************************************************)
EXTENDS Integers, Sequences, FiniteSets, TLC

\* Bounds of the model.
MaxN == 3
MaxWorkers == 2
MaxBatch == 2
MaxCheckpoint == 4
MaxFetch == 2
MaxPayments == 2

\* config.py:17
MAX_RETRIES == 3

VARIABLES
    NUM_WORKERS,      \* config.py:14, a parameter of the run
    BATCH_SIZE,       \* config.py:13, a parameter of the run
    CHECKPOINT_SIZE,  \* config.py:15, a parameter of the run
    id_file_exists,   \* whether ID_LIST_PATH can be opened
    ids_list,         \* the lines of the identifier file
    pc,               \* position of run_scraper / scrape_all_ids ("raising": a
                      \* worker's exception is on its way to scrape_all_ids)
    total_processed,  \* value returned by run_scraper (-1: not returned yet)
    id_chunks,        \* scrape_all_ids: id_chunks
    wpc,              \* per worker: "gather" (awaiting its batch), "returned"
                      \* or "raised" (save_checkpoint raised in it)
    batch_start,      \* per worker: the loop variable i of worker
    worker_results,   \* per worker: its local list worker_results
    task,             \* per identifier: the scrape_id_async call chain
    processed_count,  \* the shared Counter.value
    failed_ids,       \* the shared list failed_ids
    results_store,    \* rows of the file TAX_RESULTS_PATH
    failed_store,     \* lines of the file FAILED_IDS_PATH
    writes,           \* history: the calls of save_checkpoint, in order (ok:
                      \* whether the write succeeded)
    failed_writes,    \* history: number of calls of save_failed_ids
    requests,         \* history (SpecFetch): requests issued per identifier
    hist,             \* history (SpecFetch): responses received per identifier
    open_responses,   \* history (SpecFetch): per identifier, the requests issued
                      \* whose response context is not closed yet
    down              \* SpecProcess: two outcomes of one identifier on their
                      \* way through the results store and process_tax_data

vars == << NUM_WORKERS, BATCH_SIZE, CHECKPOINT_SIZE, id_file_exists, ids_list,
           pc, total_processed, id_chunks, wpc, batch_start, worker_results,
           task, processed_count, failed_ids, results_store, failed_store,
           writes, failed_writes, requests, hist, open_responses, down >>

config == << NUM_WORKERS, BATCH_SIZE, CHECKPOINT_SIZE, id_file_exists, ids_list >>
observed == << requests, hist, open_responses >>

---------------------------------------------------------------------------
\* Python helpers

Min(a, b) == IF a < b THEN a ELSE b

\* s[a:b] for 0 <= a, 0 <= b
Slice(s, a, b) == SubSeq(s, a + 1, Min(b, Len(s)))

\* list(range(start, stop, step)) for step > 0 (step = 0 raises ValueError)
Range(start, stop, step) ==
    IF stop <= start THEN << >>
    ELSE [k \in 1..(((stop - start) + step - 1) \div step) |-> start + (k - 1) * step]

RECURSIVE Concat(_)
Concat(ss) == IF ss = << >> THEN << >> ELSE Head(ss) \o Concat(Tail(ss))

\* The identifier list <<1, ..., n>>
IdList(n) == [i \in 1..n |-> i]

---------------------------------------------------------------------------
\* The two stores

\* writer.writerow(['Property ID', 'Result']); 0 stands for the text 'Property ID'
HeaderRow == [id |-> 0, result |-> "Result"]

\* writer.writerow([id, result])
Row(id, result) == [id |-> id, result |-> result]

\* What an earlier run may have left in the results store and the failure store
\* (a run over the same list in which identifier 1 failed, or no earlier run)
PriorRow == [id |-> 1, result |-> "Prior"]
PriorResults == << HeaderRow, PriorRow >>
PriorFailed == << 1 >>

\* save_checkpoint: mode 'w' truncates, mode 'a' appends
SaveCheckpoint(store, data, is_first_write) ==
    IF is_first_write THEN << HeaderRow >> \o data ELSE store \o data

\* save_failed_ids: mode 'w', one identifier per line
SaveFailedIds(ids) == ids

\* Nothing is being processed downstream
NoDownstream == [stage |-> "none"]

---------------------------------------------------------------------------
\* scrape_id_async

IdleTask == [phase |-> "idle", retry_count |-> 0, result |-> "None"]
NewTask == [phase |-> "sleep", retry_count |-> 0, result |-> "None"]
Responses == {"ok", "status", "exception"}

\* line 35-62: a status below 400 whose page is extracted: the dict is returned
OnOk(t) == [phase |-> "done", retry_count |-> 0, result |-> "Success"]

\* A retry that does not count its attempts: a status >= 400 is retried forever
OnStatusForever(t) == [phase |-> "sleep", retry_count |-> t.retry_count, result |-> "None"]

\* A retry test that is off by one: a status >= 400 is retried once too often
OnStatusOffByOne(t) ==
    IF t.retry_count < MAX_RETRIES
    THEN [phase |-> "sleep", retry_count |-> t.retry_count + 1, result |-> "None"]
    ELSE [phase |-> "done", retry_count |-> 0, result |-> "Failed after"]

\* line 28-33: a status >= 400
OnStatus(t) ==
    IF t.retry_count < MAX_RETRIES - 1
    THEN [phase |-> "sleep", retry_count |-> t.retry_count + 1, result |-> "None"]
    ELSE [phase |-> "done", retry_count |-> 0, result |-> "Failed after"]

\* An exception handler that gives up at once instead of retrying
OnExceptionNoRetry(t) == [phase |-> "done", retry_count |-> 0, result |-> "Error scraping"]

\* line 64-69: the request, the body read or the extraction raised
OnException(t) ==
    IF t.retry_count < MAX_RETRIES - 1
    THEN [phase |-> "sleep", retry_count |-> t.retry_count + 1, result |-> "None"]
    ELSE [phase |-> "done", retry_count |-> 0, result |-> "Error scraping"]

\* line 25-27: the delay is over and the GET is issued
ScrapeIssue(id) ==
    /\ task[id].phase = "sleep"
    /\ task' = [task EXCEPT ![id].phase = "request"]

\* line 27-69: the exchange ends with response r
ScrapeResponse(id, r) ==
    /\ task[id].phase = "request"
    /\ task' = [task EXCEPT ![id] =
                   CASE r = "ok" -> OnOk(task[id])
                     [] r = "status" -> OnStatus(task[id])
                     [] OTHER -> OnException(task[id])]

\* line 100: isinstance(result, str) and result.startswith(("Error", "Failed"))
IsFailedResult(result) == result \in {"Failed after", "Error scraping"}

---------------------------------------------------------------------------
\* scrape_all_ids: chunking

\* line 124-126
ChunkSize(n, w) == IF n % w > 0 THEN (n \div w) + 1 ELSE n \div w

\* A chunking that accepts the empty list
ChunkingNeverRaises(ids, w) == FALSE

\* line 128 raises ValueError (range() arg 3 must not be zero)
ChunkingRaises(ids, w) == ChunkSize(Len(ids), w) = 0

\* line 128
IdChunks(ids, w) ==
    LET chunk_size == ChunkSize(Len(ids), w)
        starts == Range(0, Len(ids), chunk_size)
    IN  [k \in 1..Len(starts) |-> Slice(ids, starts[k], starts[k] + chunk_size)]

---------------------------------------------------------------------------
\* worker

\* line 93
Batch(chunk, i, size) == Slice(chunk, i, i + size)

InBatch(id, batch) == \E k \in 1..Len(batch) : batch[k] = id

\* A dispatch that creates the tasks of the whole rest of the chunk at once
StartRestOfChunk(tk, chunk, i, size) ==
    [id \in DOMAIN tk |-> IF InBatch(id, Slice(chunk, i, Len(chunk))) THEN NewTask ELSE tk[id]]

\* line 95: the tasks of the batch starting at i, created for gather
StartBatch(tk, chunk, i, size) ==
    [id \in DOMAIN tk |-> IF InBatch(id, Batch(chunk, i, size)) THEN NewTask ELSE tk[id]]

\* A gather that returns the results last submitted first
BatchResultsReversed(batch) ==
    [k \in 1..Len(batch) |-> Row(batch[Len(batch) + 1 - k], task[batch[Len(batch) + 1 - k]].result)]

\* line 96: gather returns the results in submission order
BatchResults(batch) == [k \in 1..Len(batch) |-> Row(batch[k], task[batch[k]].result)]

\* line 99-101
NewlyFailed(batch_results) ==
    LET failed == SelectSeq(batch_results, LAMBDA row : IsFailedResult(row.result))
    IN  [k \in 1..Len(failed) |-> failed[k].id]

\* An increment that counts the batch as one identifier
IncrementedByOne(count, batch) == count + 1

\* line 104
Incremented(count, batch) == count + Len(batch)

\* line 105
FlushDue(count, checkpoint_size) == count % checkpoint_size = 0

\* A worker's flush that truncates at every multiple of the checkpoint size
WorkerFirstWriteEveryFlush(count, checkpoint_size) == count % checkpoint_size = 0

\* line 106: the is_first_write argument of a worker's flush
WorkerFirstWrite(count, checkpoint_size) == count = checkpoint_size

\* A flush that leaves the buffer as it was
AfterFlushKeeps(buffer, flushed) == buffer

\* line 107
AfterFlush(buffer, flushed) == IF flushed THEN << >> ELSE buffer

\* A final flush that takes the worker's test for the first write
FinalFirstWriteAsWorker(count, checkpoint_size) == count = checkpoint_size

\* line 142: the is_first_write argument of the final flush
FinalFirstWrite(count, checkpoint_size) == count < checkpoint_size

\* line 137-139
Remaining(final_results) == Concat(final_results)

\* A failure store that is written whether or not an identifier failed
SaveFailedAlways(failed) == TRUE

\* line 145
SaveFailedDue(failed) == failed # << >>

Workers == DOMAIN id_chunks
Ids == DOMAIN task

---------------------------------------------------------------------------
\* Initial states: the configuration, the identifier file and what an earlier
\* run left on disk.

Init ==
    /\ NUM_WORKERS \in 1..MaxWorkers
    /\ BATCH_SIZE \in 1..MaxBatch
    /\ CHECKPOINT_SIZE \in 1..MaxCheckpoint
    /\ id_file_exists \in BOOLEAN
    /\ ids_list \in {IdList(n) : n \in 0..MaxN}
    /\ (~id_file_exists => ids_list = << >>)
    /\ pc = "start"
    /\ total_processed = -1
    /\ id_chunks = << >>
    /\ wpc = << >>
    /\ batch_start = << >>
    /\ worker_results = << >>
    /\ task = [id \in 1..Len(ids_list) |-> IdleTask]
    /\ processed_count = 0
    /\ failed_ids = << >>
    /\ \E prior \in BOOLEAN :
          /\ results_store = IF prior THEN PriorResults ELSE << >>
          /\ failed_store = IF prior THEN PriorFailed ELSE << >>
    /\ writes = << >>
    /\ failed_writes = 0
    /\ requests = [id \in 1..Len(ids_list) |-> 0]
    /\ hist = [id \in 1..Len(ids_list) |-> << >>]
    /\ open_responses = [id \in 1..Len(ids_list) |-> 0]
    /\ down = NoDownstream

---------------------------------------------------------------------------
\* run_scraper

\* line 158, 175-177: open() raises FileNotFoundError
RunScraperFileNotFound ==
    /\ pc = "start"
    /\ ~id_file_exists
    /\ pc' = "file_not_found"
    /\ total_processed' = 0
    /\ UNCHANGED << config, id_chunks, wpc, batch_start, worker_results, task,
                    processed_count, failed_ids, results_store, failed_store,
                    writes, failed_writes, observed, down >>

\* line 158-166, 117-128, 178-180: the chunking raises, run_scraper returns 0
RunScraperChunkingError ==
    /\ pc = "start"
    /\ id_file_exists
    /\ ChunkingRaises(ids_list, NUM_WORKERS)
    /\ pc' = "error"
    /\ total_processed' = 0
    /\ UNCHANGED << config, id_chunks, wpc, batch_start, worker_results, task,
                    processed_count, failed_ids, results_store, failed_store,
                    writes, failed_writes, observed, down >>

\* line 158-166, 117-134, 91-96: the workers are created and each dispatches
\* its first batch
RunScraperLaunch ==
    /\ pc = "start"
    /\ id_file_exists
    /\ ~ChunkingRaises(ids_list, NUM_WORKERS)
    /\ LET chunks == IdChunks(ids_list, NUM_WORKERS)
       IN  /\ id_chunks' = chunks
           /\ wpc' = [w \in DOMAIN chunks |-> "gather"]
           /\ batch_start' = [w \in DOMAIN chunks |-> 0]
           /\ worker_results' = [w \in DOMAIN chunks |-> << >>]
           /\ task' = [id \in DOMAIN task |->
                         IF \E w \in DOMAIN chunks : InBatch(id, Batch(chunks[w], 0, BATCH_SIZE))
                         THEN NewTask ELSE task[id]]
    /\ pc' = "running"
    /\ UNCHANGED << config, total_processed, processed_count, failed_ids,
                    results_store, failed_store, writes, failed_writes, observed, down >>

---------------------------------------------------------------------------
\* scrape_id_async, as run by the workers of a run

IssueRequest(id) ==
    /\ pc = "running"
    /\ ScrapeIssue(id)
    /\ UNCHANGED << config, pc, total_processed, id_chunks, wpc, batch_start,
                    worker_results, processed_count, failed_ids, results_store,
                    failed_store, writes, failed_writes, observed, down >>

ReceiveResponse(id, r) ==
    /\ pc = "running"
    /\ ScrapeResponse(id, r)
    /\ UNCHANGED << config, pc, total_processed, id_chunks, wpc, batch_start,
                    worker_results, processed_count, failed_ids, results_store,
                    failed_store, writes, failed_writes, observed, down >>

---------------------------------------------------------------------------
\* worker, line 96-110 and the next iteration's line 92-96: gather has
\* returned; the batch is accounted, possibly flushed, and the next batch is
\* dispatched or the worker returns.  The flush may fail (open or write
\* raises OSError, the store is taken to be left as it was): the exception
\* leaves the worker at line 106 and travels through gather to
\* scrape_all_ids.  Until it arrives there (pc = "raising") the event loop
\* still resumes the other workers whose batch is complete.
WorkerCollect(w) ==
    /\ pc \in {"running", "raising"}
    /\ wpc[w] = "gather"
    /\ LET batch == Batch(id_chunks[w], batch_start[w], BATCH_SIZE)
           batch_results == BatchResults(batch)
           buffer == worker_results[w] \o batch_results
           count == Incremented(processed_count, batch)
           flush == FlushDue(count, CHECKPOINT_SIZE)
           first == WorkerFirstWrite(count, CHECKPOINT_SIZE)
           next_i == batch_start[w] + BATCH_SIZE
       IN  /\ \A k \in 1..Len(batch) : task[batch[k]].phase = "done"
           /\ failed_ids' = failed_ids \o NewlyFailed(batch_results)
           /\ processed_count' = count
           /\ \E write_ok \in BOOLEAN :
                 /\ ~flush => write_ok
                 /\ writes' = IF flush
                               THEN Append(writes, [by |-> w, is_first_write |-> first,
                                                    data |-> buffer, ok |-> write_ok])
                               ELSE writes
                 /\ IF write_ok
                    THEN /\ results_store' = IF flush
                                             THEN SaveCheckpoint(results_store, buffer, first)
                                             ELSE results_store
                         /\ worker_results' = [worker_results EXCEPT ![w] = AfterFlush(buffer, flush)]
                         /\ batch_start' = [batch_start EXCEPT ![w] = next_i]
                         /\ IF next_i < Len(id_chunks[w])
                            THEN /\ task' = StartBatch(task, id_chunks[w], next_i, BATCH_SIZE)
                                 /\ wpc' = wpc
                            ELSE /\ task' = task
                                 /\ wpc' = [wpc EXCEPT ![w] = "returned"]
                         /\ pc' = pc
                    ELSE /\ results_store' = results_store
                         /\ worker_results' = [worker_results EXCEPT ![w] = buffer]
                         /\ batch_start' = batch_start
                         /\ task' = task
                         /\ wpc' = [wpc EXCEPT ![w] = "raised"]
                         /\ pc' = "raising"
    /\ UNCHANGED << config, total_processed, id_chunks, failed_store,
                    failed_writes, observed, down >>

\* scrape_all_ids line 134 and run_scraper line 166, 178-180: the worker's
\* exception reaches scrape_all_ids and leaves it; asyncio.run cancels the
\* tasks that are left and run_scraper returns 0.
Abort ==
    /\ pc = "raising"
    /\ pc' = "write_error"
    /\ total_processed' = 0
    /\ UNCHANGED << config, id_chunks, wpc, batch_start, worker_results, task,
                    processed_count, failed_ids, results_store, failed_store,
                    writes, failed_writes, observed, down >>

\* scrape_all_ids line 134-149 and run_scraper line 166-180: every worker has
\* returned; the leftovers are flushed, the failed identifiers saved and the
\* count returned.  Either write may fail: the exception leaves
\* scrape_all_ids at once and run_scraper returns 0.
Finish ==
    /\ pc = "running"
    /\ \A w \in Workers : wpc[w] = "returned"
    /\ LET remaining_results == Remaining(worker_results)
           first == FinalFirstWrite(processed_count, CHECKPOINT_SIZE)
           flush == remaining_results # << >>
           save_failed == SaveFailedDue(failed_ids)
       IN  \E flush_ok, failed_ok \in BOOLEAN :
             /\ ~flush => flush_ok
             /\ (~save_failed \/ ~flush_ok) => failed_ok
             /\ writes' = IF flush
                           THEN Append(writes, [by |-> 0, is_first_write |-> first,
                                                data |-> remaining_results, ok |-> flush_ok])
                           ELSE writes
             /\ results_store' = IF flush /\ flush_ok
                                  THEN SaveCheckpoint(results_store, remaining_results, first)
                                  ELSE results_store
             /\ failed_writes' = IF flush_ok /\ save_failed
                                  THEN failed_writes + 1 ELSE failed_writes
             /\ failed_store' = IF flush_ok /\ save_failed /\ failed_ok
                                 THEN SaveFailedIds(failed_ids) ELSE failed_store
             /\ IF flush_ok /\ failed_ok
                THEN pc' = "done" /\ total_processed' = processed_count
                ELSE pc' = "write_error" /\ total_processed' = 0
    /\ UNCHANGED << config, id_chunks, wpc, batch_start, worker_results, task,
                    processed_count, failed_ids, observed, down >>

Next ==
    \/ RunScraperFileNotFound
    \/ RunScraperChunkingError
    \/ RunScraperLaunch
    \/ \E id \in Ids : IssueRequest(id)
    \/ \E id \in Ids, r \in Responses : ReceiveResponse(id, r)
    \/ \E w \in Workers : WorkerCollect(w)
    \/ Abort
    \/ Finish

Spec == Init /\ [][Next]_vars

TypeOK ==
    /\ pc \in {"start", "running", "raising", "done", "error", "file_not_found",
              "write_error"}
    /\ processed_count \in 0..Len(ids_list)

---------------------------------------------------------------------------
\* scrape_id_async observed alone: a session in which the identifiers of one
\* batch are dispatched, with the requests issued and the responses received
\* recorded per identifier.

FetchInit ==
    /\ NUM_WORKERS = 1
    /\ BATCH_SIZE = MaxFetch
    /\ CHECKPOINT_SIZE = 1
    /\ id_file_exists = TRUE
    /\ ids_list \in {IdList(n) : n \in 1..MaxFetch}
    /\ pc = "fetch"
    /\ total_processed = -1
    /\ id_chunks = << >>
    /\ wpc = << >>
    /\ batch_start = << >>
    /\ worker_results = << >>
    /\ task = [id \in 1..Len(ids_list) |-> NewTask]
    /\ processed_count = 0
    /\ failed_ids = << >>
    /\ results_store = << >>
    /\ failed_store = << >>
    /\ writes = << >>
    /\ failed_writes = 0
    /\ requests = [id \in 1..Len(ids_list) |-> 0]
    /\ hist = [id \in 1..Len(ids_list) |-> << >>]
    /\ open_responses = [id \in 1..Len(ids_list) |-> 0]
    /\ down = NoDownstream

\* line 27-33 and 64-69: the response contexts of one fetch that are open
\* after a response.  A status >= 400 is retried at line 31 inside the
\* "async with" of line 27, so its context stays open until the retry
\* returns; an exception leaves the "async with" before the retry of line
\* 67; a return unwinds and closes every context of the fetch.
OpenAfter(open, t, r) ==
    IF t.phase = "done" THEN 0
    ELSE IF r = "status" THEN open
    ELSE open - 1

ObservedIssue(id) ==
    /\ ScrapeIssue(id)
    /\ requests' = [requests EXCEPT ![id] = @ + 1]
    /\ open_responses' = [open_responses EXCEPT ![id] = @ + 1]
    /\ UNCHANGED << config, pc, total_processed, id_chunks, wpc, batch_start,
                    worker_results, processed_count, failed_ids, results_store,
                    failed_store, writes, failed_writes, hist, down >>

ObservedResponse(id, r) ==
    /\ ScrapeResponse(id, r)
    /\ hist' = [hist EXCEPT ![id] = Append(@, r)]
    /\ open_responses' = [open_responses EXCEPT ![id] = OpenAfter(@, task'[id], r)]
    /\ UNCHANGED << config, pc, total_processed, id_chunks, wpc, batch_start,
                    worker_results, processed_count, failed_ids, results_store,
                    failed_store, writes, failed_writes, requests, down >>

FetchNext ==
    \/ \E id \in Ids : ObservedIssue(id)
    \/ \E id \in Ids, r \in Responses : ObservedResponse(id, r)

SpecFetch == FetchInit /\ [][FetchNext]_vars

---------------------------------------------------------------------------
\* Properties of scrape_id_async (checked under SpecFetch)

Done(id) == task[id].phase = "done"
AllStatus(h) == \A k \in 1..Len(h) : h[k] = "status"
HasOk(h) == \E k \in 1..Len(h) : h[k] = "ok"
\* the attempt on which the fetch first succeeds (0: it has not succeeded)
FirstOk(h) == IF HasOk(h) THEN CHOOSE k \in 1..Len(h) : h[k] = "ok" /\ \A j \in 1..(k - 1) : h[j] # "ok"
              ELSE 0

\* C3: an identifier whose every response is a status >= 400 gets exactly
\* MAX_RETRIES requests and then a Failure outcome; an identifier whose fetch
\* first succeeds on attempt k <= MAX_RETRIES gets exactly k requests and a
\* Success outcome (the call returns with that response).
C3_RetryBudget ==
    \A id \in Ids :
        /\ (AllStatus(hist[id]) /\ Len(hist[id]) = MAX_RETRIES) => Done(id)
        /\ (AllStatus(hist[id]) /\ Done(id)) =>
               /\ requests[id] = MAX_RETRIES
               /\ Len(hist[id]) = MAX_RETRIES
               /\ IsFailedResult(task[id].result)
        /\ HasOk(hist[id]) =>
               /\ Done(id)
               /\ FirstOk(hist[id]) <= MAX_RETRIES
               /\ requests[id] = FirstOk(hist[id])
               /\ Len(hist[id]) = FirstOk(hist[id])
               /\ task[id].result = "Success"

\* C3 witness: one identifier failed after MAX_RETRIES error statuses while
\* another succeeded on its second attempt.
C3_Witness ==
    \E a, b \in Ids :
        /\ Done(a) /\ AllStatus(hist[a]) /\ requests[a] = MAX_RETRIES
        /\ task[a].result = "Failed after"
        /\ Done(b) /\ FirstOk(hist[b]) = 2 /\ task[b].result = "Success"

\* C8: scrape_id_async never raises; exceptions and error statuses draw on
\* one budget: never more than MAX_RETRIES requests for an identifier, and a
\* Failure outcome only after exactly MAX_RETRIES attempts, none of which
\* succeeded.
C8_SharedBudget ==
    \A id \in Ids :
        /\ task[id].phase \in {"sleep", "request", "done"}
        /\ requests[id] <= MAX_RETRIES
        /\ Len(hist[id]) <= requests[id]
        /\ (Done(id) /\ IsFailedResult(task[id].result)) =>
               /\ requests[id] = MAX_RETRIES
               /\ Len(hist[id]) = MAX_RETRIES
               /\ ~HasOk(hist[id])
        /\ (Len(hist[id]) = MAX_RETRIES /\ ~HasOk(hist[id])) =>
               /\ Done(id)
               /\ IsFailedResult(task[id].result)

\* C8 witness: a Failure outcome reached through a mixture of error statuses
\* and exceptions.
C8_Witness ==
    \E id \in Ids :
        /\ Done(id)
        /\ IsFailedResult(task[id].result)
        /\ \E j, k \in 1..Len(hist[id]) : hist[id][j] = "status" /\ hist[id][k] = "exception"
        /\ requests[id] = MAX_RETRIES

---------------------------------------------------------------------------
\* Properties of a run (checked under Spec)

N == Len(ids_list)
Completed == pc = "done"
AllSucceeded == \A id \in Ids : task[id].result = "Success"
FailedSet == {id \in Ids : IsFailedResult(task[id].result)}
Positions(seq, row) == {k \in DOMAIN seq : seq[k] = row}
RowsOf(seq, id) == {k \in DOMAIN seq : seq[k].id = id}
Flushed == Concat([f \in DOMAIN writes |-> writes[f].data])
\* the rows the workers' flushes wrote (a failed flush leaves its rows in the
\* buffer of the worker it ended)
WorkerFlushed == Concat([f \in DOMAIN writes |->
                            IF writes[f].by # 0 /\ writes[f].ok THEN writes[f].data ELSE << >>])
\* the number of identifiers in the batches that workers 1..w have collected
\* (a worker ended by a failed flush had counted the batch it was in)
RECURSIVE Collected(_)
Collected(w) ==
    IF w = 0 THEN 0
    ELSE Min(batch_start[w] + (IF wpc[w] = "raised" THEN BATCH_SIZE ELSE 0), Len(id_chunks[w]))
         + Collected(w - 1)
\* ceil(n / w), computed without the code's arithmetic
Ceil(n, w) == CHOOSE c \in 0..n : c * w >= n /\ (c - 1) * w < n

\* C1: after a completed run without failures the results store holds the
\* header exactly once, as its first line.
C1_HeaderOnceFirst ==
    (Completed /\ AllSucceeded) =>
        /\ results_store # << >>
        /\ results_store[1] = HeaderRow
        /\ Cardinality(Positions(results_store, HeaderRow)) = 1

\* C2: after a completed run every identifier has exactly one data row in the
\* results store, written by exactly one flush, and N data rows were written.
C2_OneRowPerIdentifier ==
    Completed =>
        /\ \A id \in Ids :
              /\ Cardinality(RowsOf(results_store, id)) = 1
              /\ Cardinality({f \in DOMAIN writes : RowsOf(writes[f].data, id) # {}}) = 1
              /\ Cardinality(RowsOf(Flushed, id)) = 1
        /\ Len(Flushed) = N

\* The part of C2 that is about the flushes of this run alone: every
\* identifier's outcome is written once, by one flush, and it is the row the
\* store holds for this run.
C2_WrittenOnce ==
    Completed =>
        /\ \A id \in Ids :
              /\ Cardinality({f \in DOMAIN writes : RowsOf(writes[f].data, id) # {}}) = 1
              /\ Cardinality(Positions(Flushed, Row(id, task[id].result))) = 1
              /\ Cardinality(Positions(results_store, Row(id, task[id].result))) = 1
        /\ Len(Flushed) = N

\* C4: the chunking of a list of any length N >= 0 yields at most NUM_WORKERS
\* chunks, contiguous slices of size ceil(N / NUM_WORKERS) but for a possibly
\* smaller last one, that hold every identifier once and concatenate to the
\* list.
C4_Chunking ==
    (id_file_exists /\ pc # "start") =>
        /\ pc # "error"
        /\ Len(id_chunks) <= NUM_WORKERS
        /\ Concat(id_chunks) = ids_list
        /\ \A id \in Ids :
              Cardinality({k \in DOMAIN id_chunks : InBatch(id, id_chunks[k])}) = 1
        /\ \A k \in DOMAIN id_chunks :
              LET c == Ceil(N, NUM_WORKERS)
              IN  /\ id_chunks[k] = SubSeq(ids_list, (k - 1) * c + 1, Min(k * c, N))
                  /\ (k < Len(id_chunks) => Len(id_chunks[k]) = c)
                  /\ Len(id_chunks[k]) \in 1..c

\* The chunking law for the lists the chunking accepts (N >= 1).
C4_ChunkingNonEmpty ==
    (id_file_exists /\ pc # "start" /\ N >= 1) => C4_Chunking

\* C5: after a completed run the failure store holds exactly the identifiers
\* whose outcome is a Failure, also when there is none.
C5_FailureStoreLaw ==
    Completed => {failed_store[k] : k \in DOMAIN failed_store} = FailedSet

\* The failure-store law for the runs that have a failure.
C5_FailureStoreWhenFailed ==
    (Completed /\ FailedSet # {}) =>
        {failed_store[k] : k \in DOMAIN failed_store} = FailedSet

\* C6: a post-batch increment that takes ProcessedCount from below a multiple
\* of CHECKPOINT_SIZE to that multiple or beyond makes the incrementing worker
\* flush its buffer in the same step.
C6_CrossingFlushes ==
    [][ (\E m \in 1..processed_count' :
            /\ processed_count < m * CHECKPOINT_SIZE
            /\ processed_count' >= m * CHECKPOINT_SIZE)
        => /\ Len(writes') = Len(writes) + 1
           /\ \E w \in Workers :
                 /\ batch_start'[w] # batch_start[w]
                 /\ writes'[Len(writes')].by = w
                 /\ worker_results'[w] = << >> ]_vars

\* C7: the first flush of a run truncates the store and every later one
\* appends, so a completed run that flushed leaves no row of an earlier run.
C7_FirstFlushTruncates ==
    /\ writes # << >> => writes[1].is_first_write
    /\ \A f \in 2..Len(writes) : ~writes[f].is_first_write
    /\ (Completed /\ writes # << >>) => Positions(results_store, PriorRow) = {}

\* C9: no increment of ProcessedCount is lost: it always equals the number of
\* outcomes appended to the workers' buffers (flushed since or not), which is
\* the number of identifiers of the collected batches, and the run returns N.
C9_NoLostIncrement ==
    /\ processed_count = Len(Concat(worker_results)) + Len(WorkerFlushed)
    /\ processed_count = Collected(Len(id_chunks))
    /\ Completed => (total_processed = N /\ processed_count = N)

\* C9 witness: a completed run of two workers over three identifiers in which
\* a worker flushed.
C9_Witness ==
    /\ Completed
    /\ Len(id_chunks) = 2
    /\ N = 3
    /\ total_processed = 3
    /\ \E f \in DOMAIN writes : writes[f].by # 0

\* C10: in a run with 0 < N < CHECKPOINT_SIZE no worker flushes; when all
\* fetches succeeded the one flush is the final one, the results store is the
\* header followed by the N rows in input order, and the failure store is not
\* written.
C10_SmallRun ==
    (0 < N /\ N < CHECKPOINT_SIZE) =>
        /\ \A f \in DOMAIN writes : writes[f].by = 0
        /\ pc = "running" => writes = << >>
        /\ (Completed /\ AllSucceeded) =>
              /\ Len(writes) = 1
              /\ results_store = << HeaderRow >> \o [k \in 1..N |-> Row(ids_list[k], "Success")]
              /\ failed_writes = 0

\* C10 witness: the scenario of three identifiers, two workers, batches of two
\* and a checkpoint size above three, all fetches succeeding.
C10_Witness ==
    /\ Completed
    /\ N = 3 /\ NUM_WORKERS = 2 /\ BATCH_SIZE = 2 /\ CHECKPOINT_SIZE = 4
    /\ AllSucceeded
    /\ Len(results_store) = 4

\* C11: the failure store is written at most once per run, only when an
\* identifier failed, and only after every worker has returned and the final
\* results flush has been made; while the run is under way it is untouched.
C11_FailureStoreOnce ==
    /\ failed_writes <= 1
    /\ failed_writes = 1 =>
          /\ pc \in {"done", "write_error"}
          /\ \A w \in Workers : wpc[w] = "returned"
          /\ failed_ids # << >>
          /\ Remaining(worker_results) # << >> =>
                /\ writes # << >>
                /\ writes[Len(writes)].by = 0
                /\ writes[Len(writes)].ok
    /\ pc \in {"start", "running", "raising"} =>
          /\ failed_writes = 0
          /\ failed_store \in {<< >>, PriorFailed}
    /\ pc = "done" => (failed_writes = 1 <=> failed_ids # << >>)

\* C11 witness: a completed run of two workers that made its final flush and
\* then wrote the failure store.
C11_Witness ==
    /\ pc = "done"
    /\ Len(id_chunks) = 2
    /\ failed_writes = 1
    /\ failed_store = failed_ids
    /\ writes # << >> /\ writes[Len(writes)].by = 0

\* C12: a failed durable write is not retried: it ends the run, no durable
\* write follows it, and run_scraper returns (0) instead of raising.
C12_WriteFailureFatal ==
    /\ \A f \in DOMAIN writes :
          ~writes[f].ok => (f = Len(writes) /\ failed_writes = 0)
    /\ (\E f \in DOMAIN writes : ~writes[f].ok) => pc \in {"raising", "write_error"}
    /\ pc = "write_error" => total_processed = 0

\* The part of C12 that the code keeps: after a failed write the run never
\* completes, the final flush and the failure-store write are not made, and
\* run_scraper returns 0.
C12_WriteFailureEndsRun ==
    /\ \A f \in DOMAIN writes :
          ~writes[f].ok =>
              /\ pc \in {"raising", "write_error"}
              /\ failed_writes = 0
              /\ \A g \in (f + 1)..Len(writes) : writes[g].by \notin {0, writes[f].by}
    /\ pc = "write_error" => total_processed = 0

\* C13: with the identifier file absent or the list empty no worker is
\* launched, nothing is fetched or written, and run_scraper returns 0.
C13_MissingInput ==
    (~id_file_exists \/ N = 0) =>
        /\ pc \in {"start", "file_not_found", "error"}
        /\ id_chunks = << >>
        /\ writes = << >> /\ failed_writes = 0
        /\ results_store \in {<< >>, PriorResults}
        /\ failed_store \in {<< >>, PriorFailed}
        /\ pc # "start" => total_processed = 0
        /\ (pc = "file_not_found" <=> (pc # "start" /\ ~id_file_exists))

\* C13 witness: run_scraper has returned 0 for an existing, empty identifier
\* file, the stores of an earlier run untouched.
C13_Witness ==
    /\ id_file_exists /\ N = 0
    /\ pc = "error"
    /\ total_processed = 0
    /\ results_store = PriorResults

---------------------------------------------------------------------------
\* Downstream of the results store: the Result values scrape_id_async can
\* return, their text in the store, and process_tax_data
\* (src/scraper/process_data.py).  A Result is a str or a dict; both are held
\* in one record shape, with kind telling which.  NaN and NaT are values here
\* (a missing number, a missing date).

\* scrape_ids.py line 39 and 57
NotFoundTotal == "Could not find total due"
NotFoundTable == "Could not find payment history table"

\* scrape_ids.py line 49-55: rows as scraped [tax year, transaction date,
\* effective date, payment amount, receipt number]
PaymentRows ==
    { << "", "01-15-2023", "soon", "$100.00", "" >>,
      << "2024", "01-15-2024", "01-20-2024", "$1,250.00", "R-2" >>,
      << "2024", "pending", "", "", "" >> }
PaymentLists == UNION {[1..n -> PaymentRows] : n \in 0..MaxPayments}

\* The detail pages: the total-due cell and the payment table may be absent
Pages == [has_total : BOOLEAN, total : {"$100.00"}, has_table : BOOLEAN, rows : PaymentLists]

\* scrape_ids.py line 33 and 69: a failure is returned as a str
StrResult(text) ==
    [kind |-> "str", text |-> text, total_due |-> "", history_is_str |-> FALSE,
     history_text |-> "", history |-> << >>]

\* scrape_ids.py line 35-62: the dict returned for a page
Extract(page) ==
    [kind |-> "dict", text |-> "",
     total_due |-> IF page.has_total THEN page.total ELSE NotFoundTotal,
     history_is_str |-> ~page.has_table,
     history_text |-> IF page.has_table THEN "" ELSE NotFoundTable,
     history |-> IF page.has_table THEN page.rows ELSE << >>]

\* Every Result scrape_id_async can return
Outcomes == {StrResult("Failed after"), StrResult("Error scraping")} \cup {Extract(p) : p \in Pages}

\* scrape_ids.py line 79 and process_data.py line 85: the Result cell is
\* str(result): the str itself, or the Python literal of the dict
CsvCell(result) == [literal |-> result.kind = "dict", text |-> result.text, value |-> result]

\* process_data.py line 12
ParseErrorDict ==
    [total_due |-> "Error parsing", history_is_str |-> FALSE, history_text |-> "",
     history |-> << >>]

\* process_data.py line 7-12: ast.literal_eval gives the dict back and raises
\* on the text of a failure
ParseResult(cell) ==
    IF cell.literal
    THEN [total_due |-> cell.value.total_due, history_is_str |-> cell.value.history_is_str,
          history_text |-> cell.value.history_text, history |-> cell.value.history]
    ELSE ParseErrorDict

NaN == [nan |-> TRUE, value |-> 0]
NaT == [nat |-> TRUE, day |-> 0]
NoText == [nan |-> TRUE, text |-> ""]

\* float(text without '$' and ',') where it does not raise ValueError
AmountValue(text) ==
    CASE text = "$100.00" -> 100
      [] text = "$1,250.00" -> 1250
      [] OTHER -> -1

\* pd.to_datetime(text, format='%m-%d-%Y') where it does not raise ValueError
DateValue(text) ==
    CASE text = "01-15-2023" -> 1
      [] text = "01-15-2024" -> 2
      [] text = "01-20-2024" -> 3
      [] OTHER -> -1

\* process_data.py line 14-23
CurrencyToFloat(text) ==
    IF text = NotFoundTotal \/ text = "N/A" THEN NaN
    ELSE IF AmountValue(text) >= 0 THEN [nan |-> FALSE, value |-> AmountValue(text)]
    ELSE NaN

\* process_data.py line 25-32
SafeParseDate(text) ==
    IF DateValue(text) >= 0 THEN [nat |-> FALSE, day |-> DateValue(text)] ELSE NaT

\* process_data.py line 41-47 and 71-77
NoPayment ==
    [tax_year |-> NoText, transaction_date |-> NaT, effective_date |-> NaT,
     payment_amount |-> NaN, receipt_number |-> NoText]

\* process_data.py line 38-77
GetLatestPayment(history_is_str, history) ==
    LET dated == SelectSeq(history, LAMBDA entry : DateValue(entry[2]) >= 0)
    IN  IF history_is_str \/ history = << >> \/ dated = << >> THEN NoPayment
        ELSE LET latest == CHOOSE e \in {dated[k] : k \in DOMAIN dated} :
                               \A k \in DOMAIN dated : DateValue(e[2]) >= DateValue(dated[k][2])
             IN  [tax_year |-> IF latest[1] # "" THEN [nan |-> FALSE, text |-> latest[1]] ELSE NoText,
                  transaction_date |-> SafeParseDate(latest[2]),
                  effective_date |-> SafeParseDate(latest[3]),
                  payment_amount |-> CurrencyToFloat(latest[4]),
                  receipt_number |-> IF latest[5] # "" THEN [nan |-> FALSE, text |-> latest[5]]
                                     ELSE NoText]

\* process_data.py line 97-107: the record of one row of the store
ProcessRow(id, cell) ==
    LET result_dict == ParseResult(cell)
    IN  [property_id |-> id,
         total_due |-> CurrencyToFloat(result_dict.total_due),
         latest |-> GetLatestPayment(result_dict.history_is_str, result_dict.history)]

\* Two runs' outcomes for one identifier, before they are stored
ProcessInit ==
    /\ NUM_WORKERS = 1
    /\ BATCH_SIZE = 1
    /\ CHECKPOINT_SIZE = 1
    /\ id_file_exists = TRUE
    /\ ids_list \in {IdList(n) : n \in 1..MaxN}
    /\ pc = "process"
    /\ total_processed = -1
    /\ id_chunks = << >>
    /\ wpc = << >>
    /\ batch_start = << >>
    /\ worker_results = << >>
    /\ task = [id \in 1..Len(ids_list) |-> IdleTask]
    /\ processed_count = 0
    /\ failed_ids = << >>
    /\ results_store = << >>
    /\ failed_store = << >>
    /\ writes = << >>
    /\ failed_writes = 0
    /\ requests = [id \in 1..Len(ids_list) |-> 0]
    /\ hist = [id \in 1..Len(ids_list) |-> << >>]
    /\ open_responses = [id \in 1..Len(ids_list) |-> 0]
    /\ \E a \in Outcomes, b \in Outcomes :
          down = [stage |-> "scraped", id |-> Len(ids_list), outcome |-> << a, b >>,
                  cell |-> << >>, record |-> << >>]

\* save_checkpoint line 78-79 and process_tax_data line 85
StoreRows ==
    /\ down.stage = "scraped"
    /\ down' = [down EXCEPT !.stage = "stored",
                            !.cell = << CsvCell(down.outcome[1]), CsvCell(down.outcome[2]) >>]
    /\ UNCHANGED << config, pc, total_processed, id_chunks, wpc, batch_start,
                    worker_results, task, processed_count, failed_ids, results_store,
                    failed_store, writes, failed_writes, observed >>

\* process_tax_data line 96-109
ProcessRows ==
    /\ down.stage = "stored"
    /\ down' = [down EXCEPT !.stage = "processed",
                            !.record = << ProcessRow(down.id, down.cell[1]),
                                          ProcessRow(down.id, down.cell[2]) >>]
    /\ UNCHANGED << config, pc, total_processed, id_chunks, wpc, batch_start,
                    worker_results, task, processed_count, failed_ids, results_store,
                    failed_store, writes, failed_writes, observed >>

ProcessNext == StoreRows \/ ProcessRows

SpecProcess == ProcessInit /\ [][ProcessNext]_vars

\* a Success whose total-due is the "not found" sentinel
SentinelSuccess(result) == result.kind = "dict" /\ result.total_due = NotFoundTotal
\* a Failure (retries exhausted)
FailureOutcome(result) == result.kind = "str"

\* C14: for no identifier do a Success with the "not found" total-due and a
\* Failure give the same Result value in the results store, nor the same
\* record in process_tax_data.
C14_Distinguishable ==
    (down.stage # "scraped" /\ SentinelSuccess(down.outcome[1]) /\ FailureOutcome(down.outcome[2])) =>
        /\ down.cell[1] # down.cell[2]
        /\ down.stage = "processed" => down.record[1] # down.record[2]

\* The part of C14 that holds: the two stay distinct in the results store.
C14_DistinctInStore ==
    (down.stage # "scraped" /\ SentinelSuccess(down.outcome[1]) /\ FailureOutcome(down.outcome[2])) =>
        down.cell[1] # down.cell[2]

---------------------------------------------------------------------------
\* The worker's step after a batch

\* Worker w takes its step after a batch (line 98-107)
CollectStep(w) ==
    /\ w \in DOMAIN wpc /\ w \in DOMAIN wpc'
    /\ wpc[w] = "gather"
    /\ batch_start'[w] # batch_start[w] \/ wpc'[w] = "raised"

\* The rows worker w has flushed so far
FlushedRows(w) ==
    LET mine == SelectSeq(writes, LAMBDA wr : wr.by = w /\ wr.ok)
    IN  Concat([k \in 1..Len(mine) |-> mine[k].data])

---------------------------------------------------------------------------
\* Batches of one worker

\* The index of the batch that holds position p of a chunk (line 92-93)
BatchOf(p) == (p - 1) \div BATCH_SIZE

\* The pair of identifier id is in worker w's buffer or in one of its flushes
Accounted(w, id) ==
    \/ \E k \in 1..Len(worker_results[w]) : worker_results[w][k].id = id
    \/ \E f \in 1..Len(writes) :
          /\ writes[f].by = w
          /\ \E k \in 1..Len(writes[f].data) : writes[f].data[k].id = id

\* C16: within one worker no fetch of an identifier of a later batch has
\* started (first attempt or retry) unless every fetch of each earlier batch
\* has returned its final outcome and that batch has been counted and, if
\* due, flushed.
C16_BatchesInSequence ==
    \A w \in Workers : \A pa \in 1..Len(id_chunks[w]), pb \in 1..Len(id_chunks[w]) :
        (BatchOf(pa) < BatchOf(pb) /\ task[id_chunks[w][pb]].phase # "idle") =>
            /\ task[id_chunks[w][pa]].phase = "done"
            /\ batch_start[w] >= BatchOf(pb) * BATCH_SIZE
            /\ Accounted(w, id_chunks[w][pa])
            /\ processed_count >= BatchOf(pb) * BATCH_SIZE

\* A worker retries a fetch of its second batch
C16_Witness ==
    \E w \in Workers : \E pb \in 1..Len(id_chunks[w]) :
        /\ BatchOf(pb) >= 1
        /\ task[id_chunks[w][pb]].phase = "request"
        /\ task[id_chunks[w][pb]].retry_count >= 1

---------------------------------------------------------------------------
\* Order of the rows

\* The identifiers of a sequence of rows
IdsOf(rows) == [k \in 1..Len(rows) |-> rows[k].id]

\* The worker whose chunk holds identifier id
ChunkOfId(id) == CHOOSE w \in Workers : InBatch(id, id_chunks[w])

\* The position of identifier id in its chunk
PositionInChunk(id) ==
    CHOOSE p \in 1..Len(id_chunks[ChunkOfId(id)]) : id_chunks[ChunkOfId(id)][p] = id

\* rows are in worker order and, within a worker, in the order of its chunk
InChunkOrder(rows) ==
    \A k \in 1..(Len(rows) - 1) :
        \/ ChunkOfId(rows[k].id) < ChunkOfId(rows[k + 1].id)
        \/ /\ ChunkOfId(rows[k].id) = ChunkOfId(rows[k + 1].id)
           /\ PositionInChunk(rows[k].id) < PositionInChunk(rows[k + 1].id)

\* C17: whatever order the fetches of a batch complete in, a worker's rows
\* (flushed and buffered) are the rows of its chunk in chunk order, each
\* with its own identifier's result, and the final flush lists the workers'
\* leftover buffers in worker order.
C17_SubmissionOrder ==
    /\ \A w \in Workers :
          LET rows == FlushedRows(w) \o worker_results[w]
          IN  /\ IdsOf(rows) = Slice(id_chunks[w], 0, Len(rows))
              /\ InChunkOrder(worker_results[w])
              /\ \A k \in 1..Len(worker_results[w]) :
                    worker_results[w][k].result = task[worker_results[w][k].id].result
    /\ \A f \in 1..Len(writes) :
          /\ InChunkOrder(writes[f].data)
          /\ \A k \in 1..Len(writes[f].data) :
                writes[f].data[k].result = task[writes[f].data[k].id].result
          /\ writes[f].by = 0 =>
                /\ Len(writes[f].data) = Len(Concat(worker_results))
                /\ \A w \in Workers : \A k \in 1..Len(worker_results[w]) :
                      \E l \in 1..Len(writes[f].data) : writes[f].data[l] = worker_results[w][k]

\* The final flush has written a batch of two of the first worker, with
\* different results, followed by a pair of the second worker
C17_Witness ==
    /\ pc = "done"
    /\ writes # << >>
    /\ LET last == writes[Len(writes)]
       IN  /\ last.by = 0
           /\ Len(last.data) = 3
           /\ BATCH_SIZE = 2
           /\ ChunkOfId(last.data[1].id) = 1 /\ ChunkOfId(last.data[2].id) = 1
           /\ ChunkOfId(last.data[3].id) = 2
           /\ last.data[1].result # last.data[2].result

---------------------------------------------------------------------------
\* Requests in flight

RECURSIVE SumTo(_, _)
SumTo(f, n) == IF n = 0 THEN 0 ELSE f[n] + SumTo(f, n - 1)

\* The requests issued whose response context has not been closed
InFlight == SumTo(open_responses, Len(open_responses))

\* The requests whose response has not arrived
Pending == Cardinality({id \in Ids : task[id].phase = "request"})

\* C18: at every instant the number of requests in flight (issued, response
\* context not yet closed) is at most BATCH_SIZE * NUM_WORKERS, retries
\* included.
C18_InFlightBound == InFlight <= BATCH_SIZE * NUM_WORKERS

\* What holds instead: at most BATCH_SIZE * NUM_WORKERS requests wait for
\* their response, and at most MAX_RETRIES times as many are in flight.
C18_InFlightWithRetries ==
    /\ Pending <= BATCH_SIZE * NUM_WORKERS
    /\ InFlight <= BATCH_SIZE * NUM_WORKERS * MAX_RETRIES
    /\ \A id \in Ids : open_responses[id] <= MAX_RETRIES

---------------------------------------------------------------------------
\* Termination.  The durable writes are taken to succeed, the event loop
\* runs a callback whenever one is ready, and every request is taken to be
\* answered (with a page, a status or an exception): some step of LiveNext
\* is taken as long as one is enabled.

\* A durable write has failed
WriteFailed == pc \in {"raising", "write_error"}

\* The steps of a run whose durable writes succeed
LiveNext ==
    \/ RunScraperFileNotFound
    \/ RunScraperChunkingError
    \/ RunScraperLaunch
    \/ \E id \in Ids : IssueRequest(id)
    \/ \E id \in Ids, r \in Responses : ReceiveResponse(id, r)
    \/ \E w \in Workers : WorkerCollect(w) /\ ~WriteFailed'
    \/ Finish /\ ~WriteFailed'

SpecLive == Init /\ [][LiveNext]_vars /\ WF_vars(LiveNext)

\* The run has ended with every worker finished and every identifier counted
Terminated ==
    /\ pc = "done"
    /\ \A w \in Workers : wpc[w] = "returned"
    /\ processed_count = Len(ids_list)
    /\ total_processed = Len(ids_list)

\* Some fetch of worker w has not returned its final outcome
Unfinished(w) ==
    \E p \in 1..Len(id_chunks[w]) : task[id_chunks[w][p]].phase \in {"sleep", "request"}

\* C19: when every request is answered and the durable writes succeed, a run
\* over a non-empty identifier list eventually ends with every worker
\* finished and processed_count = N; and as long as one request has not
\* completed, its batch is not counted, its worker has not returned, and
\* neither the final flush nor the failure-store write has happened.
C19_Termination ==
    /\ (pc = "start" /\ id_file_exists /\ ids_list # << >>) ~> Terminated
    /\ [](\A w \in Workers : Unfinished(w) =>
             /\ wpc[w] = "gather"
             /\ \A p \in 1..Len(id_chunks[w]) :
                   task[id_chunks[w][p]].phase \in {"sleep", "request"} =>
                       /\ batch_start[w] <= p - 1
                       /\ ~Accounted(w, id_chunks[w][p])
             /\ pc = "running"
             /\ \A f \in 1..Len(writes) : writes[f].by # 0
             /\ failed_writes = 0
             /\ failed_store \in {<< >>, PriorFailed})

\* A run of two workers has ended, every write done, after a fetch was retried
C19_Witness ==
    /\ Terminated
    /\ Len(id_chunks) = 2
    /\ failed_ids # << >>
    /\ failed_writes = 1
    /\ writes # << >>

---------------------------------------------------------------------------
\* Truncating writes

\* row is in the results store
InStore(row) == \E r \in 1..Len(results_store) : results_store[r] = row

\* C20: a truncating write of the results store never destroys rows written
\* earlier in the run: whenever save_checkpoint is called with is_first_write
\* true (by a worker when processed_count equals CHECKPOINT_SIZE, by the
\* final flush when processed_count is below CHECKPOINT_SIZE) no flush has
\* happened yet in the run, and at most one flush of a run has is_first_write
\* true.
C20_TruncationKeepsRows ==
    /\ [](/\ \A f \in 1..Len(writes) : writes[f].is_first_write => f = 1
          /\ \A f \in 1..Len(writes) : writes[f].ok =>
                \A k \in 1..Len(writes[f].data) : InStore(writes[f].data[k]))
    /\ [][(Len(writes') = Len(writes) + 1 /\ writes'[Len(writes')].is_first_write) =>
            /\ writes = << >>
            /\ writes'[1].by # 0 => processed_count' = CHECKPOINT_SIZE
            /\ writes'[1].by = 0 => processed_count' < CHECKPOINT_SIZE
            /\ \A r \in 1..Len(results_store) :
                  results_store[r] \in {HeaderRow, PriorRow}
       ]_vars

\* A worker's truncating flush replaced the store of a previous run and a
\* later flush appended to it
C20_Witness ==
    /\ Len(writes) >= 2
    /\ writes[1].is_first_write /\ writes[1].ok /\ writes[1].by # 0
    /\ writes[2].ok
    /\ results_store[1] = HeaderRow
    /\ ~InStore(PriorRow)
    /\ Len(results_store) = 1 + Len(writes[1].data) + Len(writes[2].data)

====
